---- MODULE Spec2Model ----
(***************************************************************************)
(* Monarch: a migration manager.  A migration is a file of the migrations  *)
(* directory; its first line may carry a "--!" header with a JSON mapping  *)
(* of commands (depends_on).  process_migration resolves the dependencies  *)
(* of a migration, drops the ones already registered in the internal       *)
(* database, runs the rest on the target database in one transaction and   *)
(* registers them in the internal database.                                *)
(***************************************************************************)
EXTENDS Integers, Sequences, FiniteSets, TLC

\* Bounds of the model.
MaxDeps == 2
MaxRuns == 2

\* The migration files of the directory, and the invocations of the program.
Names == {"a", "b", "c"}
Procs == {1, 2}

VARIABLES files, internal, target, run, runs, active

vars == <<files, internal, target, run, runs, active>>

Range(s) == {s[i] : i \in 1..Len(s)}

\* ---------------------------------------------------------------- files

\* The first three characters of a command line.
Marker == <<"-", "-", "!">>

NoKey == [key |-> "", val |-> ""]

\* A file of the migrations directory: whether it can be read, the first
\* three characters of its first line, and what the rest of that line is as
\* JSON text: "invalid" (not JSON), "list" (JSON, not an object) or "object",
\* with the depends_on list (when the key is there) and one other key.
File(ex, pre, js, hd, ds, xk) ==
    [exists |-> ex, prefix |-> pre, json |-> js, has_deps |-> hd,
     deps |-> ds, extra |-> xk]

DepLists == UNION {[1..n -> Names] : n \in 0..MaxDeps}

MissingFile == File(FALSE, <<>>, "invalid", FALSE, <<>>, NoKey)
PlainFile == File(TRUE, <<"C", "R", "E">>, "invalid", FALSE, <<>>, NoKey)
CommentedFile == File(TRUE, <<"-", "-", " ">>, "object", TRUE, <<"a">>, NoKey)
BadJsonFile == File(TRUE, Marker, "invalid", FALSE, <<>>, NoKey)
ListFile == File(TRUE, Marker, "list", FALSE, <<>>, NoKey)
OtherKeyFile == File(TRUE, Marker, "object", FALSE, <<>>,
                     [key |-> "author", val |-> "x"])
DepFile(ds) == File(TRUE, Marker, "object", TRUE, ds, NoKey)

\* ------------------------------------------------------- header parsing

\* string[:3] == "--!"
is_valid_command(string) ==
    Len(string) >= 3 /\ SubSeq(string, 1, 3) = Marker

\* parse_header: err is the RuntimeError that wraps every exception of the
\* try block; otherwise the value json.loads returned, or {} for a first
\* line that is no command.
parse_header(F, migration) ==
    LET f == F[migration] IN
    IF ~f.exists
    THEN [err |-> TRUE, is_dict |-> FALSE, has_deps |-> FALSE,
          deps |-> <<>>, extra |-> NoKey]
    ELSE IF is_valid_command(f.prefix)
    THEN IF f.json = "invalid"
         THEN [err |-> TRUE, is_dict |-> FALSE, has_deps |-> FALSE,
               deps |-> <<>>, extra |-> NoKey]
         ELSE [err |-> FALSE, is_dict |-> f.json = "object",
               has_deps |-> f.json = "object" /\ f.has_deps,
               deps |-> IF f.json = "object" /\ f.has_deps
                        THEN f.deps ELSE <<>>,
               extra |-> IF f.json = "object" THEN f.extra ELSE NoKey]
    ELSE [err |-> FALSE, is_dict |-> TRUE, has_deps |-> FALSE,
          deps |-> <<>>, extra |-> NoKey]

\* commands.get('depends_on', [])
DependsOn(commands) == IF commands.has_deps THEN commands.deps ELSE <<>>

\* The 'name' of {'name': migration, **commands}: a "name" key of the
\* header comes later in the literal and wins.
EntryName(migration, commands) ==
    IF commands.extra.key = "name" THEN commands.extra.val ELSE migration

\* --------------------------------------------------- dependency resolver

NoError == [kind |-> "none", names |-> {}]

\* ValueError of line 256: the second literal is no f-string, so the text
\* of the message carries no migration name.
CircularError(migration, dependency) == [kind |-> "circular", names |-> {}]

\* RuntimeError of line 286.
HeaderError(migration) == [kind |-> "header", names |-> {migration}]

\* AttributeError of commands.get when the header is JSON but no object.
AttributeError == [kind |-> "attribute", names |-> {}]

EmptyAcc == [resolved |-> <<>>, seen |-> <<>>, err |-> NoError]

\* The test of line 254 left out.
NotResolvedAlways(dependency, acc) == TRUE

\* dependency not in {m['name'] for m in resolved}
NotResolved(dependency, acc) == dependency \notin Range(acc.resolved)

\* dependency in {m['name'] for m in seen}
InSeen(dependency, acc) == dependency \in Range(acc.seen)

RECURSIVE _solve_dependencies(_, _, _)
RECURSIVE SolveLoop(_, _, _, _, _)

\* The for loop of _solve_dependencies from its i-th dependency on; acc is
\* the pair of accumulators the recursive calls share, with the exception
\* that ended the walk, if any.
SolveLoop(F, migration, deps, i, acc) ==
    IF i > Len(deps) THEN acc
    ELSE IF NotResolved(deps[i], acc)
    THEN IF InSeen(deps[i], acc)
         THEN [acc EXCEPT !.err = CircularError(migration, deps[i])]
         ELSE LET sub == _solve_dependencies(F, deps[i], acc) IN
              IF sub.err.kind # "none" THEN sub
              ELSE SolveLoop(F, migration, deps, i + 1, sub)
    ELSE SolveLoop(F, migration, deps, i + 1, acc)

\* _solve_dependencies with the append of line 261 moved before the loop.
SolvePreOrder(F, migration, acc) ==
    LET commands == parse_header(F, migration)
        acc1 == [acc EXCEPT
                   !.seen = Append(@, migration),
                   !.resolved = Append(@, EntryName(migration, commands))]
    IN IF commands.err
       THEN [acc1 EXCEPT !.err = HeaderError(migration)]
       ELSE IF ~commands.is_dict
       THEN [acc1 EXCEPT !.err = AttributeError]
       ELSE SolveLoop(F, migration, DependsOn(commands), 1, acc1)

_solve_dependencies(F, migration, acc) ==
    LET acc1 == [acc EXCEPT !.seen = Append(@, migration)]
        commands == parse_header(F, migration)
    IN IF commands.err
       THEN [acc1 EXCEPT !.err = HeaderError(migration)]
       ELSE IF ~commands.is_dict
       THEN [acc1 EXCEPT !.err = AttributeError]
       ELSE LET acc2 == SolveLoop(F, migration, DependsOn(commands), 1, acc1)
            IN IF acc2.err.kind # "none" THEN acc2
               ELSE [acc2 EXCEPT
                       !.resolved = Append(@, EntryName(migration, commands))]

\* ------------------------------------------------------------ the stores

\* The internal database: the number of rows of table migration with each
\* name (id is the primary key; name is a plain String column).
\* The target database: the number of times each script is committed.
EmptyStore == [n \in Names |-> 0]

RECURSIVE AddAll(_, _)
AddAll(store, names) ==
    IF names = <<>> THEN store
    ELSE AddAll([store EXCEPT ![Head(names)] = @ + 1], Tail(names))

\* A commit that keeps only the last write of the transaction.
CommitLast(store, tx) ==
    IF tx = <<>> THEN store ELSE AddAll(store, <<tx[Len(tx)]>>)

\* A commit into a store that keeps one row for each name.
CommitUnique(store, tx) ==
    [n \in Names |-> IF n \in Range(tx) /\ store[n] = 0 THEN 1 ELSE store[n]]

\* A store after the commit of a transaction that wrote tx to it.
Commit(store, tx) == AddAll(store, tx)

\* A rollback that leaves the writes of the transaction in the store.
RollbackKeeps(store, tx) == AddAll(store, tx)

\* A store after the rollback of a transaction that wrote tx to it: the
\* exit of a with engine.begin() block by an exception.
Rollback(store, tx) == store

\* get_applied_migrations: the names of the rows of table migration.
get_applied_migrations == {n \in Names : internal[n] > 0}

\* ------------------------------------------------------------- the modes

Flags == [apply_migrations : BOOLEAN, register : BOOLEAN, dry_run : BOOLEAN,
          accept_all : BOOLEAN, ignore_applied : BOOLEAN]

\* monarch -y -m <migration>
DefaultFlags == [apply_migrations |-> TRUE, register |-> TRUE,
                 dry_run |-> FALSE, accept_all |-> TRUE,
                 ignore_applied |-> FALSE]

\* ------------------------------------------------------ the confirmation

Whitespace == {" "}

Lower(c) == IF c = "Y" THEN "y" ELSE IF c = "N" THEN "n" ELSE c

RECURSIVE LStrip(_)
LStrip(s) == IF s # <<>> /\ Head(s) \in Whitespace THEN LStrip(Tail(s)) ELSE s

RECURSIVE RStrip(_)
RStrip(s) ==
    IF s # <<>> /\ s[Len(s)] \in Whitespace
    THEN RStrip(SubSeq(s, 1, Len(s) - 1)) ELSE s

\* input(...).strip().lower()
Normalise(s) == LET t == RStrip(LStrip(s)) IN [i \in 1..Len(t) |-> Lower(t[i])]

\* prompt_for_migrations without the strip() of line 310.
PromptAnswerNoStrip(line) ==
    line = <<>> \/ Lower(line[1]) = "y"

\* The value prompt_for_migrations returns for a line of input.
PromptAnswer(line) ==
    LET response == Normalise(line) IN
    response = <<>> \/ response[1] = "y"

\* Lines the operator may type.
Responses == {<<>>, <<" ">>, <<" ", "Y", "e">>, <<"n">>, <<"n", "y">>}

\* ---------------------------------------------------------------- a run

\* The state of one invocation of the program: where it is (pc), its
\* arguments, the locals of get_migrations_to_run and run_migrations, the
\* open transactions (tx on the target database, itx on the internal one),
\* what it has done so far (executed, committed, inserted, registered), and
\* the two
\* stores as they were when it started (target0, internal0).
IdleRun ==
    [pc |-> "idle", flags |-> DefaultFlags, root |-> "", resolved |-> <<>>,
     err |-> NoError, snapshot |-> {}, plan |-> <<>>, prompted |-> FALSE,
     response |-> <<>>, applied_migrations |-> <<>>, tx |-> <<>>,
     itx |-> <<>>, executed |-> <<>>, committed |-> <<>>,
     registered |-> <<>>, inserted |-> <<>>, outcome |-> "",
     target0 |-> EmptyStore,
     internal0 |-> EmptyStore]

\* The ordered list migration_candidates that _solve_dependencies fills.
SolveRoot(F, migration) == _solve_dependencies(F, migration, EmptyAcc)

\* StartRun with the exception of the resolution swallowed.
StartRunSwallow(fl, migration, r) ==
    [IdleRun EXCEPT !.flags = fl, !.root = migration, !.err = r.err,
                    !.resolved = r.resolved, !.pc = "snapshot"]

\* The invocation after line 138 of get_migrations_to_run: the exception
\* of a failed resolution leaves process_migration before line 139.
StartRun(fl, migration, r) ==
    [IdleRun EXCEPT
       !.flags = fl, !.root = migration, !.err = r.err,
       !.resolved = IF r.err.kind = "none" THEN r.resolved ELSE <<>>,
       !.pc = IF r.err.kind = "none" THEN "snapshot" ELSE "done",
       !.outcome = IF r.err.kind = "none" THEN "" ELSE "resolve_error"]

\* A new invocation, monarch -m <migration> with the flags fl:
\* process_migration up to the end of dependency resolution (line 138); a
\* failed resolution ends the invocation with the exception.
ProcessMigration(p, migration, fl) ==
    /\ p \in active
    /\ run[p].pc = "idle"
    /\ runs < MaxRuns
    /\ runs' = runs + 1
    /\ run' = [run EXCEPT ![p] =
                 [StartRun(fl, migration, SolveRoot(files, migration))
                    EXCEPT !.target0 = target, !.internal0 = internal]]
    /\ UNCHANGED <<files, internal, target, active>>

\* The list comprehension over the candidates in reverse.
FilterReversed(candidates, applied) ==
    LET Pending(name) == name \notin applied
        kept == SelectSeq(candidates, Pending)
    IN [i \in 1..Len(kept) |-> kept[Len(kept) + 1 - i]]

\* The list comprehension without its condition.
FilterKeepAll(candidates, applied) == candidates

\* [m for m in migration_candidates if m['name'] not in applied_migrations]
FilterApplied(candidates, applied) ==
    LET Pending(name) == name \notin applied IN SelectSeq(candidates, Pending)

\* The snapshot get_migrations_to_run filters with.
AppliedSnapshot(ignore_applied) ==
    IF ignore_applied THEN {} ELSE get_applied_migrations

\* get_migrations_to_run after the resolution (lines 139-145).
GetMigrationsToRun(p) ==
    /\ p \in active
    /\ run[p].pc = "snapshot"
    /\ LET applied == AppliedSnapshot(run[p].flags.ignore_applied) IN
       run' = [run EXCEPT ![p].snapshot = applied,
                          ![p].plan = FilterApplied(run[p].resolved, applied),
                          ![p].pc = "begin"]
    /\ UNCHANGED <<files, internal, target, runs, active>>

\* The test of line 192 placed before the test of line 186.
AfterLoadPromptFirst(fl) ==
    IF ~fl.accept_all THEN "prompt" ELSE IF fl.dry_run THEN "dry" ELSE "exec"

\* What run_migrations does after loading the scripts (lines 186-193).
AfterLoad(fl) ==
    IF fl.dry_run THEN "dry"
    ELSE IF ~fl.accept_all THEN "prompt" ELSE "exec"

\* run_migrations up to the prompt (lines 182-193): get_sql_script of every
\* migration of the list, then the dry run or the way to the prompt.
RunMigrations(p) ==
    /\ p \in active
    /\ run[p].pc = "begin"
    /\ run' = IF \E n \in Range(run[p].plan) : ~files[n].exists
              THEN [run EXCEPT ![p].pc = "done", ![p].outcome = "load_error"]
              ELSE IF AfterLoad(run[p].flags) = "dry"
              THEN [run EXCEPT ![p].pc = "done", ![p].outcome = "dry"]
              ELSE [run EXCEPT ![p].pc = AfterLoad(run[p].flags)]
    /\ UNCHANGED <<files, internal, target, runs, active>>

\* prompt_for_migrations and the return of line 193.
Prompt(p, line) ==
    /\ p \in active
    /\ run[p].pc = "prompt"
    /\ run' = [run EXCEPT
                 ![p].prompted = TRUE, ![p].response = line,
                 ![p].pc = IF PromptAnswer(line) THEN "exec" ELSE "done",
                 ![p].outcome = IF PromptAnswer(line) THEN "" ELSE "declined"]
    /\ UNCHANGED <<files, internal, target, runs, active>>

\* The invocation after an exception left the with block of line 196: its
\* transactions are over, and so is the invocation.
Abort(r, why) ==
    [r EXCEPT !.tx = <<>>, !.itx = <<>>, !.pc = "done", !.outcome = why]

\* One turn of the loop of lines 197-203 with apply_migrations set:
\* conn.execute(script) in the open target transaction, then the append.
ExecuteOne(r, name, ok) ==
    IF ok
    THEN [r EXCEPT !.executed = Append(@, name), !.tx = Append(@, name),
                   !.applied_migrations = Append(@, name)]
    ELSE Abort([r EXCEPT !.executed = Append(@, name)], "execution_error")

\* One turn of the loop of lines 197-203 without apply_migrations (fake).
SkipOne(r, name) == [r EXCEPT !.applied_migrations = Append(@, name)]

\* The next migration of the loop of line 197; ok is whether the target
\* database accepts the script.
Execute(p, ok) ==
    /\ p \in active
    /\ run[p].pc = "exec"
    /\ Len(run[p].applied_migrations) < Len(run[p].plan)
    /\ LET name == run[p].plan[Len(run[p].applied_migrations) + 1] IN
       IF run[p].flags.apply_migrations
       THEN /\ run' = [run EXCEPT ![p] = ExecuteOne(run[p], name, ok)]
            /\ target' = IF ok THEN target ELSE Rollback(target, run[p].tx)
       ELSE /\ ok
            /\ run' = [run EXCEPT ![p] = SkipOne(run[p], name)]
            /\ target' = target
    /\ UNCHANGED <<files, internal, runs, active>>

\* Line 205 without the test of line 204.
AfterLoopAlways(fl) == "register"

\* Registration only of what was applied: nothing in fake mode.
AfterLoopApplyOnly(fl) ==
    IF fl.register /\ fl.apply_migrations THEN "register" ELSE "commit"

\* Where line 204 goes once the loop is over.
AfterLoop(fl) == IF fl.register THEN "register" ELSE "commit"

\* The end of the loop of line 197 (line 204).
EndLoop(p) ==
    /\ p \in active
    /\ run[p].pc = "exec"
    /\ Len(run[p].applied_migrations) = Len(run[p].plan)
    /\ run' = [run EXCEPT ![p].pc = AfterLoop(run[p].flags)]
    /\ UNCHANGED <<files, internal, target, runs, active>>

\* The exception of register_migrations caught, so that the with block of
\* the target transaction goes on to its commit.
RegistrationFailedCaught(r) ==
    [r EXCEPT !.itx = <<>>, !.pc = "commit", !.outcome = "registration_error"]

\* The invocation after an exception of register_migrations: it leaves the
\* with block of line 215 and then the with block of line 196, inside
\* which line 205 is.
RegistrationFailed(r) == Abort(r, "registration_error")

\* One INSERT of register_migrations (lines 216-220) in the open internal
\* transaction; a failure rolls the internal transaction back and leaves
\* the with block of the target transaction with the exception.
RegisterInsert(p, ok) ==
    /\ p \in active
    /\ run[p].pc = "register"
    /\ Len(run[p].itx) < Len(run[p].applied_migrations)
    /\ LET name == run[p].applied_migrations[Len(run[p].itx) + 1] IN
       run' = [run EXCEPT ![p] =
                 IF ok THEN [@ EXCEPT !.itx = Append(@, name),
                                      !.inserted = Append(@, name)]
                 ELSE RegistrationFailed(@)]
    /\ internal' = IF ok THEN internal ELSE Rollback(internal, run[p].itx)
    /\ target' = IF ok THEN target ELSE Rollback(target, run[p].tx)
    /\ UNCHANGED <<files, runs, active>>

\* The invocation after the commit of the internal transaction.
Registered(r) ==
    [r EXCEPT !.registered = r.itx, !.itx = <<>>, !.pc = "commit"]

\* The end of the with block of line 215: the commit of the internal
\* transaction, inside the with block of the target transaction.
RegisterCommit(p, ok) ==
    /\ p \in active
    /\ run[p].pc = "register"
    /\ Len(run[p].itx) = Len(run[p].applied_migrations)
    /\ IF ok
       THEN /\ internal' = Commit(internal, run[p].itx)
            /\ target' = target
            /\ run' = [run EXCEPT ![p] = Registered(@)]
       ELSE /\ internal' = Rollback(internal, run[p].itx)
            /\ run' = [run EXCEPT ![p] = RegistrationFailed(@)]
            /\ target' = Rollback(target, run[p].tx)
    /\ UNCHANGED <<files, runs, active>>

\* The invocation after the commit of the target transaction.
Committed(r) ==
    [r EXCEPT !.committed = r.tx, !.tx = <<>>, !.pc = "done",
              !.outcome = "ok"]

\* The end of the with block of line 196: the commit of the target
\* transaction.
CommitTarget(p, ok) ==
    /\ p \in active
    /\ run[p].pc = "commit"
    /\ IF ok
       THEN /\ target' = Commit(target, run[p].tx)
            /\ run' = [run EXCEPT ![p] = Committed(@)]
       ELSE /\ target' = Rollback(target, run[p].tx)
            /\ run' = [run EXCEPT ![p] = Abort(@, "commit_error")]
    /\ UNCHANGED <<files, internal, runs, active>>

\* The end of the process (main returns or the exception leaves it); the
\* next invocation starts from a new Monarch object.
Exit(p) ==
    /\ p \in active
    /\ run[p].pc = "done"
    /\ run' = [run EXCEPT ![p] = IdleRun]
    /\ UNCHANGED <<files, internal, target, runs, active>>

\* ------------------------------------------------------- specifications

\* Directories of migrations: a chain, a shared dependency, a cycle, a
\* header that is no JSON, a dependency on a file that is not there.
ChainRepo == [n \in Names |->
    IF n = "a" THEN PlainFile
    ELSE IF n = "b" THEN DepFile(<<"a">>) ELSE DepFile(<<"b">>)]
SharedRepo == [n \in Names |->
    IF n = "a" THEN OtherKeyFile
    ELSE IF n = "b" THEN DepFile(<<"a">>) ELSE DepFile(<<"b", "a">>)]
CycleRepo == [n \in Names |->
    IF n = "a" THEN DepFile(<<"b">>)
    ELSE IF n = "b" THEN DepFile(<<"a">>) ELSE CommentedFile]
BadHeaderRepo == [n \in Names |->
    IF n = "a" THEN BadJsonFile
    ELSE IF n = "b" THEN DepFile(<<"a">>) ELSE DepFile(<<>>)]
MissingRepo == [n \in Names |->
    IF n = "a" THEN MissingFile
    ELSE IF n = "b" THEN DepFile(<<"c", "a">>) ELSE PlainFile]

Repos == {ChainRepo, SharedRepo, CycleRepo, BadHeaderRepo, MissingRepo}

InitStores ==
    /\ internal = EmptyStore
    /\ target = EmptyStore
    /\ run = [p \in Procs |-> IdleRun]
    /\ runs = 0

\* Sequential invocations of process_migration on one directory.
Init ==
    /\ files \in Repos
    /\ active = {1}
    /\ InitStores

Next ==
    \/ \E p \in Procs, m \in Names, fl \in Flags : ProcessMigration(p, m, fl)
    \/ \E p \in Procs : GetMigrationsToRun(p)
    \/ \E p \in Procs : RunMigrations(p)
    \/ \E p \in Procs, line \in Responses : Prompt(p, line)
    \/ \E p \in Procs, ok \in BOOLEAN : Execute(p, ok)
    \/ \E p \in Procs : EndLoop(p)
    \/ \E p \in Procs, ok \in BOOLEAN : RegisterInsert(p, ok)
    \/ \E p \in Procs, ok \in BOOLEAN : RegisterCommit(p, ok)
    \/ \E p \in Procs, ok \in BOOLEAN : CommitTarget(p, ok)
    \/ \E p \in Procs : Exit(p)

Spec == Init /\ [][Next]_vars

\* get_available_migrations: the set of the files of the directory.
Available(F) == {n \in Names : F[n].exists}

\* The orders in which the loop of line 122 may enumerate that set.
Orders(S) == {s \in [1..Cardinality(S) -> S] : Range(s) = S}

\* The root field of an invocation of process_all_migrations.
AllRoot == "*"

\* dict.fromkeys raises it on an unhashable key (line 126).
TypeError == [kind |-> "type", names |-> {}]

\* The loop of lines 122-123 from the i-th migration of the enumeration:
\* candidates += get_migrations_to_run(migration), each call with a fresh
\* resolution, filtered by the applied names; an exception of a resolution
\* leaves the loop.
RECURSIVE Candidates(_, _, _, _)
Candidates(F, order, i, applied) ==
    IF i > Len(order) THEN [err |-> NoError, list |-> <<>>]
    ELSE LET r == SolveRoot(F, order[i]) IN
         IF r.err.kind # "none" THEN [err |-> r.err, list |-> <<>>]
         ELSE LET rest == Candidates(F, order, i + 1, applied) IN
              [err |-> rest.err,
               list |-> FilterApplied(r.resolved, applied) \o rest.list]

\* list(dict.fromkeys(candidates)) of line 126: the candidates are dicts,
\* which cannot be keys, so the first of them raises TypeError; an empty
\* list gives an empty list.
DictFromKeys(candidates) ==
    IF candidates = <<>> THEN [err |-> NoError, list |-> <<>>]
    ELSE [err |-> TypeError, list |-> <<>>]

\* A new invocation, monarch -a with the flags fl, enumerating the
\* directory in the given order: process_all_migrations up to the call of
\* run_migrations (lines 120-127). Its run keeps the list candidates in
\* the field resolved and the list passed to run_migrations in plan.
ProcessAllMigrations(p, order, fl) ==
    /\ p \in active
    /\ run[p].pc = "idle"
    /\ runs < MaxRuns
    /\ order \in Orders(Available(files))
    /\ runs' = runs + 1
    /\ LET applied == AppliedSnapshot(fl.ignore_applied)
           c == Candidates(files, order, 1, applied)
           d == DictFromKeys(c.list)
           failed == c.err.kind # "none" \/ d.err.kind # "none"
       IN run' = [run EXCEPT ![p] =
                    [IdleRun EXCEPT
                       !.flags = fl, !.root = AllRoot, !.snapshot = applied,
                       !.err = IF c.err.kind # "none" THEN c.err ELSE d.err,
                       !.resolved = IF c.err.kind = "none" THEN c.list
                                    ELSE <<>>,
                       !.plan = IF failed THEN <<>> ELSE d.list,
                       !.pc = IF failed THEN "done" ELSE "begin",
                       !.outcome = IF c.err.kind # "none" THEN "resolve_error"
                                   ELSE IF failed THEN "type_error" ELSE "",
                       !.target0 = target, !.internal0 = internal]]
    /\ UNCHANGED <<files, internal, target, active>>

\* Sequential invocations of process_migration and process_all_migrations
\* on one directory.
NextAll ==
    \/ Next
    \/ \E p \in Procs, order \in Orders(Available(files)), fl \in Flags :
         ProcessAllMigrations(p, order, fl)

SpecAll == Init /\ [][NextAll]_vars

\* Two simultaneous invocations on one directory and one pair of stores.
InitConc ==
    /\ files = ChainRepo
    /\ active = Procs
    /\ InitStores

\* monarch -y -m <migration>.
Invoke(p, migration) == ProcessMigration(p, migration, DefaultFlags)

\* The steps of the two invocations interleave: each of them is one
\* statement on a database or a step between two such statements.
NextConc ==
    \/ \E p \in Procs, m \in Names : Invoke(p, m)
    \/ \E p \in Procs : GetMigrationsToRun(p)
    \/ \E p \in Procs : RunMigrations(p)
    \/ \E p \in Procs, ok \in BOOLEAN : Execute(p, ok)
    \/ \E p \in Procs : EndLoop(p)
    \/ \E p \in Procs, ok \in BOOLEAN : RegisterInsert(p, ok)
    \/ \E p \in Procs, ok \in BOOLEAN : RegisterCommit(p, ok)
    \/ \E p \in Procs, ok \in BOOLEAN : CommitTarget(p, ok)
    \/ \E p \in Procs : Exit(p)

SpecConc == InitConc /\ [][NextConc]_vars

\* A command line with a depends_on list and another key.
KeyFile(ds, xk) == File(TRUE, Marker, "object", TRUE, ds, xk)

\* Directories whose headers carry keys other than depends_on: a key
\* "author" in a chain, and a key "name" in the header of c.
AuthorRepo == [n \in Names |->
    IF n = "a" THEN OtherKeyFile
    ELSE IF n = "b" THEN KeyFile(<<"a">>, [key |-> "author", val |-> "x"])
    ELSE DepFile(<<"b">>)]
RenamedRepo == [n \in Names |->
    IF n = "a" THEN PlainFile
    ELSE IF n = "b" THEN DepFile(<<"a">>)
    ELSE KeyFile(<<"a">>, [key |-> "name", val |-> "b"])]

KeyRepos == {AuthorRepo, RenamedRepo}

\* Sequential invocations of process_migration on such a directory.
InitKeys ==
    /\ files \in KeyRepos
    /\ active = {1}
    /\ InitStores

SpecKeys == InitKeys /\ [][Next]_vars

\* The files a directory may hold in the resolver's specification.
ResolveFiles ==
    {MissingFile, PlainFile, BadJsonFile, ListFile, OtherKeyFile} \cup {DepFile(ds) : ds \in DepLists}

\* One resolution of each migration of every directory of such files.
InitResolve ==
    /\ files \in [Names -> ResolveFiles]
    /\ active = {1}
    /\ InitStores

Resolve(m) == ProcessMigration(1, m, DefaultFlags)

NextResolve == \E m \in Names : Resolve(m)

SpecResolve == InitResolve /\ [][NextResolve]_vars

\* ------------------------------------------------- the dependency graph

\* The dependencies the header of a migration declares.
DeclaredDeps(F, n) ==
    IF F[n].exists /\ F[n].prefix = Marker /\ F[n].json = "object"
       /\ F[n].has_deps
    THEN Range(F[n].deps) ELSE {}

\* A readable file whose first line is no command, or a command with a
\* JSON object that has no "name" key.
WellFormed(F, n) ==
    /\ F[n].exists
    /\ F[n].prefix = Marker => F[n].json = "object" /\ F[n].extra.key # "name"

RECURSIVE Closure(_, _)
Closure(F, S) ==
    LET T == S \cup UNION {DeclaredDeps(F, n) : n \in S} IN
    IF T = S THEN S ELSE Closure(F, T)

\* The migration and its transitive dependencies.
Reach(F, m) == Closure(F, {m})

\* A cycle of dependencies (a self-dependency too) can be reached from m.
CycleFrom(F, m) ==
    \E n \in Reach(F, m) : n \in Closure(F, DeclaredDeps(F, n))

\* Every header that can be reached from m parses to a mapping.
CleanFrom(F, m) == \A n \in Reach(F, m) : WellFormed(F, n)

NoDuplicates(s) == \A i, j \in 1..Len(s) : s[i] = s[j] => i = j

\* ------------------------------------------------------------ the claims

\* C1: for an acyclic dependency graph (every header reachable from the
\* root well-formed), the resolution of a root succeeds and its sequence
\* holds exactly the root and its transitive dependencies, each name once,
\* every dependency before each migration that declares it.
C1_TopologicalOrder ==
    \A p \in active :
      LET r == run[p] IN
      (r.pc # "idle" /\ CleanFrom(files, r.root) /\ ~CycleFrom(files, r.root))
      => /\ r.err.kind = "none"
         /\ Range(r.resolved) = Reach(files, r.root)
         /\ NoDuplicates(r.resolved)
         /\ \A i \in 1..Len(r.resolved) :
              \A d \in DeclaredDeps(files, r.resolved[i]) :
                \E j \in 1..(i - 1) : r.resolved[j] = d

\* C1 witness: c depends on a and b, b lists a twice: a is reached on two
\* paths and listed twice, and is resolved once, first.
C1_Witness ==
    /\ run[1].pc = "snapshot"
    /\ run[1].root = "c"
    /\ files["c"] = DepFile(<<"b", "a">>)
    /\ files["b"] = DepFile(<<"a", "a">>)
    /\ files["a"] = PlainFile
    /\ run[1].resolved = <<"a", "b", "c">>

\* C2: when every header reachable from the root is well-formed, the
\* resolution ends in the circular-dependency error if and only if a cycle
\* can be reached from the root; and whenever a cycle can be reached from
\* the root the invocation ends with an exception, without a resolved set
\* or a plan.
C2_CycleIffError ==
    \A p \in active :
      LET r == run[p] IN
      r.pc # "idle"
      => /\ CleanFrom(files, r.root)
            => (r.err.kind = "circular" <=> CycleFrom(files, r.root))
         /\ CycleFrom(files, r.root)
            => /\ r.err.kind # "none"
               /\ r.pc = "done"
               /\ r.resolved = <<>>
               /\ r.plan = <<>>

\* C2 witness: the root c depends on a and on b, and b depends on itself.
C2_Witness ==
    /\ run[1].root = "c"
    /\ files["c"] = DepFile(<<"a", "b">>)
    /\ files["b"] = DepFile(<<"b">>)
    /\ files["a"] = PlainFile
    /\ run[1].err.kind = "circular"
    /\ run[1].pc = "done"

\* C3: an invocation whose header parsing or dependency resolution failed
\* has executed no script on the target database and registered no name in
\* the internal database, has no transaction open, and both stores are as
\* they were when it started.
C3_NoEffectOnResolutionError ==
    \A p \in active :
      LET r == run[p] IN
      r.err.kind # "none"
      => /\ r.executed = <<>> /\ r.committed = <<>> /\ r.registered = <<>>
         /\ r.tx = <<>> /\ r.itx = <<>>
         /\ r.plan = <<>>
         /\ target = r.target0 /\ internal = r.internal0

\* C3 witness: the second invocation asks for b, whose own header is fine
\* and whose dependency a has a header that is no JSON; the first one had
\* applied and registered c.
C3_Witness ==
    /\ files = BadHeaderRepo
    /\ run[1].root = "b"
    /\ run[1].err = HeaderError("a")
    /\ run[1].pc = "done"
    /\ internal["c"] = 1 /\ target["c"] = 1

\* C4: an invocation in which a script failed on the target database ends
\* with the target database as it was when the invocation started, the
\* scripts executed before the failing one included, and with no name of
\* the plan registered by it.
C4_AllOrNothing ==
    \A p \in active :
      LET r == run[p] IN
      r.outcome = "execution_error"
      => /\ r.pc = "done"
         /\ target = r.target0
         /\ internal = r.internal0
         /\ r.committed = <<>> /\ r.registered = <<>>
         /\ r.tx = <<>> /\ r.itx = <<>>

\* C4 witness: a plan of three scripts whose second script fails.
C4_Witness ==
    /\ run[1].outcome = "execution_error"
    /\ Len(run[1].plan) = 3
    /\ run[1].executed = SubSeq(run[1].plan, 1, 2)

C6_RegisteredOnlyIfCommitted ==
    \A p \in active :
      LET r == run[p] IN
      (r.pc = "done" /\ r.flags.apply_migrations)
      => \A n \in Range(r.registered) :
           n \in Range(r.executed) /\ n \in Range(r.committed)

\* C7: the internal database holds at most one row for each migration name.
C7_OneRowPerName == \A n \in Names : internal[n] <= 1

\* The order of s follows the order of t.
InOrderOf(s, t) ==
    \A i, j \in 1..Len(s) :
      i < j => \E k, l \in 1..Len(t) : k < l /\ t[k] = s[i] /\ t[l] = s[j]

\* C8: the plan get_migrations_to_run returns holds the names of the
\* resolved set that have no row in the internal database at the time of
\* the call, each once, in the order of the resolved set; with
\* ignore_applied it is the resolved set.
C8_PlanIsFilter ==
    \A p \in active :
      LET r == run[p] IN
      r.pc = "begin"
      => /\ r.flags.ignore_applied => r.plan = r.resolved
         /\ ~r.flags.ignore_applied
            => Range(r.plan)
                 = {n \in Range(r.resolved) : r.internal0[n] = 0}
         /\ NoDuplicates(r.plan)
         /\ InOrderOf(r.plan, r.resolved)

\* C8 witness: a is registered, c depends on b and b on a: the plan of c is
\* b, c.
C8_Witness ==
    /\ files = ChainRepo
    /\ run[1].pc = "begin"
    /\ run[1].root = "c"
    /\ run[1].resolved = <<"a", "b", "c">>
    /\ run[1].snapshot = {"a"}
    /\ run[1].plan = <<"b", "c">>

\* C9: a dry run, whatever the other flags, executes no script, registers
\* no name, shows no prompt and leaves both stores as they were.
C9_DryRunNoEffect ==
    \A p \in active :
      LET r == run[p] IN
      (r.pc # "idle" /\ r.flags.dry_run)
      => /\ r.executed = <<>> /\ r.committed = <<>> /\ r.registered = <<>>
         /\ r.tx = <<>> /\ r.itx = <<>> /\ r.applied_migrations = <<>>
         /\ ~r.prompted
         /\ r.pc \notin {"prompt", "exec", "register", "commit"}
         /\ target = r.target0 /\ internal = r.internal0

\* C9 witness: a dry run of a plan of three migrations without accept_all
\* has ended.
C9_Witness ==
    /\ run[1].outcome = "dry"
    /\ Len(run[1].plan) = 3
    /\ ~run[1].flags.accept_all
    /\ run[1].flags.apply_migrations /\ run[1].flags.register

\* C10: in fake mode with registration, an invocation executes no script
\* on the target database, and once it has ended without an error every
\* name of its plan has a row in the internal database, written by it.
C10_FakeRegistersAll ==
    \A p \in active :
      LET r == run[p] IN
      (r.pc # "idle" /\ ~r.flags.apply_migrations /\ r.flags.register
       /\ ~r.flags.dry_run)
      => /\ r.executed = <<>> /\ r.tx = <<>> /\ r.committed = <<>>
         /\ target = r.target0
         /\ r.outcome = "ok"
            => /\ r.registered = r.plan
               /\ internal = AddAll(r.internal0, r.plan)
               /\ \A n \in Range(r.plan) : internal[n] > 0

\* C10 witness: a fake run of a plan of three migrations, confirmed at the
\* prompt, has ended.
C10_Witness ==
    /\ run[1].outcome = "ok"
    /\ ~run[1].flags.apply_migrations /\ run[1].flags.register
    /\ run[1].prompted
    /\ Len(run[1].plan) = 3
    /\ \A n \in Names : internal[n] = 1 /\ target[n] = 0

\* The first character of a line that is no whitespace, lower-cased; ""
\* for a line of whitespace.
FirstLetter(line) ==
    IF \A i \in 1..Len(line) : line[i] = " " THEN ""
    ELSE LET k == CHOOSE i \in 1..Len(line) :
                    line[i] # " " /\ \A j \in 1..(i - 1) : line[j] = " "
         IN IF line[k] = "Y" THEN "y" ELSE line[k]

\* C11: an invocation shows the prompt exactly when it has neither
\* accept_all nor dry_run and gets as far as running its plan; it goes on
\* to execute if and only if the answer, trimmed and lower-cased, is empty
\* or begins with y; after any other answer it has ended with nothing
\* executed, nothing registered and both stores as they were.
C11_PromptDecides ==
    \A p \in active :
      LET r == run[p]
          consent == FirstLetter(r.response) \in {"", "y"}
      IN /\ r.pc \in {"exec", "register", "commit"}
            => (r.prompted <=> ~r.flags.accept_all)
         /\ r.prompted
            => /\ ~r.flags.accept_all /\ ~r.flags.dry_run
               /\ consent <=> r.outcome # "declined"
               /\ consent => r.pc \in {"exec", "register", "commit", "done"}
               /\ ~consent
                  => /\ r.pc = "done"
                     /\ r.executed = <<>> /\ r.committed = <<>>
                     /\ r.inserted = <<>> /\ r.registered = <<>>
                     /\ r.tx = <<>> /\ r.itx = <<>>
                     /\ target = r.target0 /\ internal = r.internal0

\* C11 witness: the answer " Ye" was given and the three scripts of the
\* plan are applied and registered.
C11_Witness ==
    /\ run[1].prompted
    /\ run[1].response = <<" ", "Y", "e">>
    /\ run[1].outcome = "ok"
    /\ Len(run[1].committed) = 3
    /\ Len(run[1].registered) = 3

\* C12: in skip-register mode an invocation never writes to the internal
\* database, and once it has ended without an error every script of its
\* plan is executed and committed on the target database, in plan order.
C12_SkipRegister ==
    \A p \in active :
      LET r == run[p] IN
      (r.pc # "idle" /\ ~r.flags.register /\ r.flags.apply_migrations
       /\ ~r.flags.dry_run)
      => /\ internal = r.internal0
         /\ r.inserted = <<>> /\ r.registered = <<>> /\ r.itx = <<>>
         /\ r.pc # "register"
         /\ r.outcome = "ok"
            => /\ r.executed = r.plan
               /\ r.committed = r.plan
               /\ target = AddAll(r.target0, r.plan)

\* C12 witness: a skip-register run of a plan of three scripts has ended
\* without an error.
C12_Witness ==
    /\ run[1].outcome = "ok"
    /\ ~run[1].flags.register /\ run[1].flags.apply_migrations
    /\ Len(run[1].plan) = 3
    /\ \A n \in Names : target[n] = 1 /\ internal[n] = 0

\* C13: whatever happened to the registration of an invocation, the
\* internal database holds the rows it had when the invocation started,
\* or those and one row more for every name of the batch; after a failed
\* registration it holds none of the rows the call inserted.
C13_RegisterAtomic ==
    \A p \in active :
      LET r == run[p] IN
      r.pc # "idle"
      => /\ \/ internal = r.internal0 /\ r.registered = <<>>
            \/ /\ internal = AddAll(r.internal0, r.applied_migrations)
               /\ r.registered = r.applied_migrations
               /\ r.pc \in {"commit", "done"}
         /\ r.outcome = "registration_error" => internal = r.internal0

\* C13 witness: the registration of a batch of three names failed after
\* two INSERTs.
C13_Witness ==
    /\ run[1].outcome = "registration_error"
    /\ Len(run[1].applied_migrations) = 3
    /\ Len(run[1].inserted) = 2
    /\ internal = run[1].internal0

\* The file cannot be read, or its first line begins with the marker and
\* the rest of it is no directive mapping.
Malformed(f) == ~f.exists \/ (f.prefix = Marker /\ f.json # "object")

\* C14: the resolution of a root ends in the header-parse error for the
\* root exactly when the file of the root cannot be read or its first line
\* begins with "--!" and the rest is no directive mapping; a first line
\* without the marker gives the root no directives and no error.
C14_HeaderErrorIffMalformed ==
    \A p \in active :
      LET r == run[p] IN
      r.pc # "idle"
      => /\ r.err = HeaderError(r.root) <=> Malformed(files[r.root])
         /\ (files[r.root].exists /\ files[r.root].prefix # Marker)
            => r.err.kind = "none" /\ r.resolved = <<r.root>>

\* C19: the circular-dependency error names the two migrations of the
\* edge that closed the cycle: the migration being visited and the
\* dependency of it that is in progress.
C19_CircularErrorNamesEdge ==
    \A p \in active :
      LET r == run[p] IN
      (r.pc # "idle" /\ r.err.kind = "circular")
      => \E m \in Reach(files, r.root) :
           \E d \in DeclaredDeps(files, m) :
             /\ m \in Closure(files, {d})
             /\ r.err.names = {m, d}

IsPrefix(s, t) == Len(s) <= Len(t) /\ s = SubSeq(t, 1, Len(s))

\* C16: an invocation that applies executes the scripts of its plan in
\* plan order, in one transaction that commits all of them or none, and
\* executes a script only after the script of each dependency of its
\* migration, unless that dependency was in the applied snapshot.
C16_ExecutionOrder ==
    \A p \in active :
      LET r == run[p] IN
      (r.pc # "idle" /\ r.flags.apply_migrations)
      => /\ IsPrefix(r.executed, r.plan)
         /\ IsPrefix(r.tx, r.executed)
         /\ r.committed # <<>> => r.committed = r.plan /\ r.outcome = "ok"
         /\ \A i \in 1..Len(r.executed) :
              \A d \in DeclaredDeps(files, r.executed[i]) :
                d \in r.snapshot \/ \E j \in 1..(i - 1) : r.executed[j] = d

\* C16 witness: c depends on b and a, b on a, and a was in the applied
\* snapshot: b then c are executed and committed.
C16_Witness ==
    /\ files = SharedRepo
    /\ run[1].root = "c"
    /\ run[1].snapshot = {"a"}
    /\ run[1].executed = <<"b", "c">>
    /\ run[1].committed = <<"b", "c">>
    /\ run[1].outcome = "ok"

\* C20: from empty stores, after any sequence of invocations in any
\* modes and with any failures, every transitive dependency of a
\* registered migration is registered.
C20_RegisteredClosed ==
    \A n \in Names :
      internal[n] > 0
      => \A d \in Closure(files, DeclaredDeps(files, n)) : internal[d] > 0

\* C20 witness: a was registered by a fake run, then c was run: its plan
\* b, c is applied and registered, and the chain c, b, a is registered.
C20_Witness ==
    /\ files = ChainRepo
    /\ runs = 2
    /\ run[1].outcome = "ok"
    /\ run[1].root = "c"
    /\ run[1].registered = <<"b", "c">>
    /\ \A n \in Names : internal[n] = 1
    /\ target = [n \in Names |-> IF n = "a" THEN 0 ELSE 1]

\* The directory with every key other than depends_on removed from the
\* headers.
StripKeys(F) == [n \in Names |-> [F[n] EXCEPT !.extra = NoKey]]

\* C15: the keys of the headers other than depends_on change nothing: the
\* resolution ends as it does without them, with the same resolved set in
\* the same order, the plan is that set without the applied snapshot, and
\* only migrations of that set are executed and registered.
C15_OtherKeysIgnored ==
    \A p \in active :
      LET r == run[p]
          ref == SolveRoot(StripKeys(files), r.root)
      IN r.pc # "idle"
         => /\ r.err.kind = ref.err.kind
            /\ r.err.kind = "none"
               => /\ r.resolved = ref.resolved
                  /\ r.pc # "snapshot"
                     => r.plan = FilterApplied(ref.resolved, r.snapshot)
                  /\ Range(r.executed) \subseteq Range(ref.resolved)
                  /\ Range(r.registered) \subseteq Range(ref.resolved)

\* Every migration of the directory has well-formed headers and no cycle
\* among its dependencies.
AllClean(F) ==
    \A n \in Available(F) : CleanFrom(F, n) /\ ~CycleFrom(F, n)

\* C17: on a directory with acyclic dependencies and in any enumeration
\* order, process_all_migrations reaches run_migrations, and the list it
\* passes holds every available migration and every dependency of one that
\* is not in the applied snapshot, each once, every dependency before the
\* migrations that declare it.
C17_AllPassesDedupedList ==
    \A p \in active :
      LET r == run[p]
          pending == UNION {Reach(files, n) : n \in Available(files)}
                       \ r.snapshot
      IN (r.pc # "idle" /\ r.root = AllRoot /\ AllClean(files))
         => /\ r.err.kind = "none"
            /\ Range(r.plan) = pending
            /\ NoDuplicates(r.plan)
            /\ \A i \in 1..Len(r.plan) :
                 \A d \in DeclaredDeps(files, r.plan[i]) \cap pending :
                   \E j \in 1..(i - 1) : r.plan[j] = d

\* C18: nothing coordinates two simultaneous invocations: when both have a
\* migration in their plans (each read its snapshot before the other
\* registered it) and both end without an error, both have executed its
\* script and both have registered its name, so the target database holds
\* its effect twice and the internal database its name twice.
C18_BothApplyAndRegister ==
    \A p, q \in active : \A m \in Names :
      (/\ p # q
       /\ run[p].pc = "done" /\ run[p].outcome = "ok"
       /\ run[q].pc = "done" /\ run[q].outcome = "ok"
       /\ m \in Range(run[p].plan) \cap Range(run[q].plan))
      => /\ m \in Range(run[p].committed) \cap Range(run[q].committed)
         /\ m \in Range(run[p].registered) \cap Range(run[q].registered)
         /\ target[m] >= 2
         /\ internal[m] >= 2

\* C18 witness: two invocations for a, both started on empty stores, both
\* with an empty snapshot, both ended without an error: a was executed
\* twice and is registered twice.
C18_Witness ==
    /\ active = {1, 2}
    /\ \A p \in active :
         /\ run[p].root = "a"
         /\ run[p].pc = "done" /\ run[p].outcome = "ok"
         /\ run[p].snapshot = {}
         /\ run[p].internal0 = EmptyStore
         /\ run[p].executed = <<"a">>
         /\ run[p].registered = <<"a">>
    /\ target["a"] = 2
    /\ internal["a"] = 2

====
